---- MODULE Spec2Model ----
(***************************************************************************)
(* Simulation core of Pyramids: the Sphere entity and the GameState        *)
(* aggregate (src/src/core/Sphere.js, src/src/core/GameState.js), with the *)
(* click handling of src/src/input/InputHandler.js and the frame loop of   *)
(* src/src/main.js.                                                        *)
(*                                                                         *)
(* Energy is a JavaScript number in percent.  It is modelled in fixed      *)
(* point: one unit is 1/EnergyScale percent, deltaTime is in whole         *)
(* seconds.  Positions are chosen so that every pairwise distance is a     *)
(* whole number (a 3-4-5 triangle), for which Math.sqrt is exact.  A rate  *)
(* is rounded down to the unit, as a double is rounded to its precision:   *)
(* far enough away it is 0.                                                *)
(***************************************************************************)
EXTENDS Integers, Sequences, FiniteSets, TLC

VARIABLES
    spheres,            \* GameState.spheres: Map id -> Sphere, in insertion order
    selectedSphereId,   \* GameState.selectedSphereId
    tick,               \* GameState.tick
    gameTime,           \* GameState.gameTime (seconds)
    gameMode,           \* GameState.gameMode
    stats,              \* GameState.stats
    lastOp,             \* the last method called (of GameState or InputHandler) and what it returned
    transfers,          \* per-connection record of the last update call
    snapshot,           \* the data object a toJSON call returned, if any
    restored,           \* the GameState a fromJSON call returned, if any
    hasWon,             \* Game.hasWon
    victoriesShown      \* the showVictory calls since the Game was built

vars == <<spheres, selectedSphereId, tick, gameTime, gameMode, stats, lastOp,
          transfers, snapshot, restored, hasWon, victoriesShown>>

----------------------------------------------------------------------------
(* Bounds of the model                                                     *)

MaxTick == 2
MaxConnections == 2
EnergyScale == 100

(* The ids of the model, in the order in which a layout adds them. *)
IdOrder == <<"a", "b", "c">>
Ids == {IdOrder[i] : i \in DOMAIN IdOrder}
Rank(id) == CHOOSE i \in DOMAIN IdOrder : IdOrder[i] = id

(* deltaTime of an update, in seconds: 10 s moves more than 100% over any  *)
(* distance of the model, 4 s about half of it.                            *)
DeltaTimes == {4, 10}

(* A sphere is added as the layout generator adds it: an owned sphere at   *)
(* 100%, a neutral sphere at 0%.                                           *)
InitEnergies(owner) ==
    IF owner = "neutral" THEN {0} ELSE {100 * EnergyScale}

(* JavaScript null and undefined, and null where a Sphere is expected *)
NULL == "null"
UNDEFINED == "undefined"
NoSphere == [null |-> TRUE]
NoData == [null |-> TRUE]
NoState == [null |-> TRUE]

Owners == {"player", "enemy", "neutral"}

(* 100 percent and 0 percent in energy units *)
FullEnergy == 100 * EnergyScale

(* Where the spheres of this model sit: a 3-4-5 triangle, and for a fourth *)
(* sphere the rectangle it is half of.                                     *)
PositionOf(id) ==
    CASE id = "a" -> [x |-> 0, y |-> 0, z |-> 0]
      [] id = "b" -> [x |-> 4, y |-> 0, z |-> 0]
      [] id = "d" -> [x |-> 4, y |-> 3, z |-> 0]
      [] OTHER    -> [x |-> 0, y |-> 3, z |-> 0]

----------------------------------------------------------------------------
(* CONFIG (src/src/main.js)                                                *)

BASE_ENERGY_RATE == 15

(* 0.01 as a fraction *)
ATTENUATION_FACTOR == [num |-> 1, den |-> 100]

----------------------------------------------------------------------------
(* Sphere (src/src/core/Sphere.js)                                         *)

(* new Sphere(id, position, owner, energy): attackingOwner is not set by   *)
(* the constructor, so it reads as undefined until an update writes it.    *)
NewSphere(id, position, owner, energy) ==
    [id |-> id, position |-> position, owner |-> owner, energy |-> energy,
     connectedTo |-> NULL, attackingOwner |-> UNDEFINED]

connectKeepFirst(sphere, targetId) ==
    IF sphere.connectedTo # NULL THEN sphere
    ELSE [sphere EXCEPT !.connectedTo = targetId]

connect(sphere, targetId) ==
    [sphere EXCEPT !.connectedTo = targetId]

disconnect(sphere) ==
    [sphere EXCEPT !.connectedTo = NULL]

isConnected(sphere) ==
    sphere.connectedTo # NULL

(* The r in lo..hi with r * r <= n < (r + 1) * (r + 1), by bisection. The  *)
(* midpoint is bound as the element of a one-element set, so that it is    *)
(* computed once in each step.                                             *)
RECURSIVE SqrtBetween(_, _, _)
SqrtBetween(n, lo, hi) ==
    IF lo = hi THEN lo
    ELSE CHOOSE r \in {IF mid * mid <= n THEN SqrtBetween(n, mid, hi)
                                         ELSE SqrtBetween(n, lo, mid - 1) :
                          mid \in {(lo + hi + 1) \div 2}} : TRUE

(* Math.sqrt of a perfect square (46340 is the largest root whose square   *)
(* is a 32-bit integer).                                                   *)
ISqrt(n) ==
    CHOOSE r \in {SqrtBetween(m, 0, IF m < 46340 THEN m ELSE 46340) : m \in {n}} : TRUE

distanceTo(sphere, other) ==
    LET dx == sphere.position.x - other.position.x
        dy == sphere.position.y - other.position.y
        dz == sphere.position.z - other.position.z
    IN  ISqrt(dx * dx + dy * dy + dz * dz)

----------------------------------------------------------------------------
(* GameState queries (src/src/core/GameState.js)                           *)

LiveIds(sphs) ==
    {sphs[i].id : i \in DOMAIN sphs}

IndexOf(sphs, sphereId) ==
    CHOOSE i \in DOMAIN sphs : sphs[i].id = sphereId

(* getSphere on a given sphere map *)
SphereIn(sphs, sphereId) ==
    IF sphereId \in LiveIds(sphs) THEN sphs[IndexOf(sphs, sphereId)] ELSE NoSphere

getSphere(sphereId) ==
    SphereIn(spheres, sphereId)

isPlayerSphereAnyOwner(sphereId) ==
    getSphere(sphereId) # NoSphere

isPlayerSphere(sphereId) ==
    LET sphere == getSphere(sphereId)
    IN  IF sphere # NoSphere THEN sphere.owner = "player" ELSE FALSE

getSelectedSphere ==
    IF selectedSphereId # NULL THEN getSphere(selectedSphereId) ELSE NoSphere

getPlayerSpheres ==
    {i \in DOMAIN spheres : spheres[i].owner = "player"}

checkVictoryNoSizeTest ==
    Cardinality(getPlayerSpheres) = Len(spheres)

checkVictory ==
    LET totalSpheres == Len(spheres)
        playerSpheres == Cardinality(getPlayerSpheres)
    IN  totalSpheres > 0 /\ playerSpheres = totalSpheres

(* The connections of getActiveConnections, in insertion order of the      *)
(* sources.  source and target are references to the sphere objects, kept  *)
(* here as their places in the map.                                        *)
RECURSIVE ConnectionsFrom(_, _)
ConnectionsFrom(sphs, i) ==
    IF i > Len(sphs) THEN <<>>
    ELSE LET source == sphs[i]
             rest == ConnectionsFrom(sphs, i + 1)
         IN  IF isConnected(source) /\ source.connectedTo \in LiveIds(sphs)
             THEN <<[source |-> i,
                     target |-> IndexOf(sphs, source.connectedTo),
                     distance |-> distanceTo(source, SphereIn(sphs, source.connectedTo))]>>
                  \o rest
             ELSE rest

getActiveConnectionsLastFirst(sphs) ==
    LET connections == ConnectionsFrom(sphs, 1)
    IN  [i \in DOMAIN connections |-> connections[Len(connections) + 1 - i]]

getActiveConnections(sphs) ==
    ConnectionsFrom(sphs, 1)

----------------------------------------------------------------------------
(* GameState.processEnergyTransfer, one connection at a time               *)

ProducesWhenCharged(source) ==
    source.energy > 0

ProducesAlways(source) ==
    TRUE

(* Only owned spheres produce energy. *)
Produces(source) ==
    source.owner # "neutral"

effectiveRateNoAttenuation(distance) ==
    BASE_ENERGY_RATE * EnergyScale

(* baseRate / (1 + distance^2 * attenuation), in energy units per second,  *)
(* rounded down to the unit.                                               *)
effectiveRate(distance) ==
    (BASE_ENERGY_RATE * EnergyScale * ATTENUATION_FACTOR.den)
        \div (ATTENUATION_FACTOR.den + distance * distance * ATTENUATION_FACTOR.num)

energyAmount(distance, deltaTime) ==
    effectiveRate(distance) * deltaTime

MaintainOwnedKeepAttacker(target) ==
    [target EXCEPT !.energy = FullEnergy]

(* Same owner: maintain at 100% *)
MaintainOwned(target) ==
    [target EXCEPT !.energy = FullEnergy, !.attackingOwner = NULL]

CaptureNeutralKeepOwner(target, sourceOwner, amount) ==
    LET energy == target.energy + amount
    IN  IF energy >= FullEnergy
        THEN [target EXCEPT !.energy = FullEnergy,
                            !.attackingOwner = NULL]
        ELSE [target EXCEPT !.energy = energy,
                            !.attackingOwner = sourceOwner]

CaptureNeutralUnclamped(target, sourceOwner, amount) ==
    LET energy == target.energy + amount
    IN  IF energy >= FullEnergy
        THEN [target EXCEPT !.energy = energy,
                            !.owner = sourceOwner,
                            !.attackingOwner = NULL]
        ELSE [target EXCEPT !.energy = energy,
                            !.attackingOwner = sourceOwner]

CaptureNeutralKeepAttacker(target, sourceOwner, amount) ==
    LET energy == target.energy + amount
    IN  IF energy >= FullEnergy
        THEN [target EXCEPT !.energy = FullEnergy,
                            !.owner = sourceOwner,
                            !.attackingOwner = sourceOwner]
        ELSE [target EXCEPT !.energy = energy,
                            !.attackingOwner = sourceOwner]

(* Capturing neutral: 0% -> 100% *)
CaptureNeutral(target, sourceOwner, amount) ==
    LET energy == target.energy + amount
    IN  IF energy >= FullEnergy
        THEN [target EXCEPT !.energy = FullEnergy,
                            !.owner = sourceOwner,
                            !.attackingOwner = NULL]
        ELSE [target EXCEPT !.energy = energy,
                            !.attackingOwner = sourceOwner]

AttackOwnedFlip(target, sourceOwner, amount) ==
    LET energy == target.energy - amount
    IN  IF energy <= 0
        THEN [target EXCEPT !.energy = 0,
                            !.owner = sourceOwner,
                            !.attackingOwner = NULL]
        ELSE [target EXCEPT !.energy = energy,
                            !.attackingOwner = sourceOwner]

(* Attacking owned sphere: 100% -> 0% (becomes neutral) *)
AttackOwned(target, sourceOwner, amount) ==
    LET energy == target.energy - amount
    IN  IF energy <= 0
        THEN [target EXCEPT !.energy = 0,
                            !.owner = "neutral",
                            !.attackingOwner = NULL]
        ELSE [target EXCEPT !.energy = energy,
                            !.attackingOwner = sourceOwner]

TransferOneCountsEveryCapture(st, conn, deltaTime) ==
    LET source == st.spheres[conn.source]
        target == st.spheres[conn.target]
        amount == energyAmount(conn.distance, deltaTime)
    IN  IF ~Produces(source) THEN st
        ELSE IF source.owner = target.owner
        THEN [st EXCEPT !.spheres[conn.target] = MaintainOwned(target)]
        ELSE IF target.owner = "neutral"
        THEN LET captured == CaptureNeutral(target, source.owner, amount)
             IN  [spheres |-> [st.spheres EXCEPT ![conn.target] = captured],
                  stats |-> [st.stats EXCEPT
                      !.spheresCaptured =
                          IF captured.owner # "neutral"
                          THEN @ + 1 ELSE @,
                      !.energyTransferred = @ + amount]]
        ELSE [spheres |-> [st.spheres EXCEPT
                      ![conn.target] = AttackOwned(target, source.owner, amount)],
              stats |-> [st.stats EXCEPT !.energyTransferred = @ + amount]]

TransferOneRecountsCaptures(st, conn, deltaTime) ==
    LET source == st.spheres[conn.source]
        target == st.spheres[conn.target]
        amount == energyAmount(conn.distance, deltaTime)
    IN  IF ~Produces(source) THEN st
        ELSE IF source.owner = target.owner
        THEN [st EXCEPT !.spheres[conn.target] = MaintainOwned(target)]
        ELSE IF target.owner = "neutral"
        THEN LET captured == CaptureNeutral(target, source.owner, amount)
             IN  [spheres |-> [st.spheres EXCEPT ![conn.target] = captured],
                  stats |-> [st.stats EXCEPT
                      !.spheresCaptured =
                          IF captured.owner # "neutral" /\ source.owner = "player"
                          THEN Cardinality({i \in DOMAIN st.spheres :
                                   i = conn.target \/ st.spheres[i].owner = "player"}) - 1
                          ELSE @,
                      !.energyTransferred = @ + amount]]
        ELSE [spheres |-> [st.spheres EXCEPT
                      ![conn.target] = AttackOwned(target, source.owner, amount)],
              stats |-> [st.stats EXCEPT !.energyTransferred = @ + amount]]

TransferOneDrainsSource(st, conn, deltaTime) ==
    LET source == st.spheres[conn.source]
        target == st.spheres[conn.target]
        amount == energyAmount(conn.distance, deltaTime)
    IN  IF ~Produces(source) THEN st
        ELSE IF source.owner = target.owner
        THEN [st EXCEPT !.spheres[conn.target] = MaintainOwned(target)]
        ELSE IF target.owner = "neutral"
        THEN LET captured == CaptureNeutral(target, source.owner, amount)
             IN  [spheres |-> [st.spheres EXCEPT ![conn.target] = captured,
                                                 ![conn.source].energy = @ - amount],
                  stats |-> [st.stats EXCEPT
                      !.spheresCaptured =
                          IF captured.owner # "neutral" /\ source.owner = "player"
                          THEN @ + 1 ELSE @,
                      !.energyTransferred = @ + amount]]
        ELSE [spheres |-> [st.spheres EXCEPT
                      ![conn.target] = AttackOwned(target, source.owner, amount),
                      ![conn.source].energy = @ - amount],
              stats |-> [st.stats EXCEPT !.energyTransferred = @ + amount]]

(* The body of connections.forEach: st is [spheres, stats] as they are     *)
(* when the connection is reached.                                         *)
TransferOne(st, conn, deltaTime) ==
    LET source == st.spheres[conn.source]
        target == st.spheres[conn.target]
        amount == energyAmount(conn.distance, deltaTime)
    IN  IF ~Produces(source) THEN st
        ELSE IF source.owner = target.owner
        THEN [st EXCEPT !.spheres[conn.target] = MaintainOwned(target)]
        ELSE IF target.owner = "neutral"
        THEN LET captured == CaptureNeutral(target, source.owner, amount)
             IN  [spheres |-> [st.spheres EXCEPT ![conn.target] = captured],
                  stats |-> [st.stats EXCEPT
                      !.spheresCaptured =
                          IF captured.owner # "neutral" /\ source.owner = "player"
                          THEN @ + 1 ELSE @,
                      !.energyTransferred = @ + amount]]
        ELSE [spheres |-> [st.spheres EXCEPT
                      ![conn.target] = AttackOwned(target, source.owner, amount)],
              stats |-> [st.stats EXCEPT !.energyTransferred = @ + amount]]

(* What one connection of an update saw and did. *)
TransferRecord(st, conn, deltaTime) ==
    [source |-> st.spheres[conn.source].id,
     target |-> st.spheres[conn.target].id,
     sourceOwner |-> st.spheres[conn.source].owner,
     amount |-> energyAmount(conn.distance, deltaTime),
     before |-> st,
     after |-> TransferOne(st, conn, deltaTime)]

RECURSIVE ProcessConnections(_, _, _, _)
ProcessConnections(st, connections, deltaTime, log) ==
    IF connections = <<>> THEN [st |-> st, log |-> log]
    ELSE ProcessConnections(TransferOne(st, Head(connections), deltaTime),
                            Tail(connections), deltaTime,
                            Append(log, TransferRecord(st, Head(connections), deltaTime)))

processEnergyTransfer(sphs, sts, deltaTime) ==
    ProcessConnections([spheres |-> sphs, stats |-> sts],
                       getActiveConnections(sphs), deltaTime, <<>>)

----------------------------------------------------------------------------
(* GameState commands                                                      *)

Call(op, ret) ==
    [op |-> op, ret |-> ret]

ZeroStats ==
    [spheresCaptured |-> 0, connectionsCreated |-> 0, energyTransferred |-> 0]

(* Map.set: a new key is appended, an existing key keeps its place. *)
addSphere(sphs, sphere) ==
    IF sphere.id \in LiveIds(sphs)
    THEN [sphs EXCEPT ![IndexOf(sphs, sphere.id)] = sphere]
    ELSE Append(sphs, sphere)

removeSphereKeepLinks(sphs, sphereId) ==
    SelectSeq(sphs, LAMBDA s : s.id # sphereId)

removeSphere(sphs, sphereId) ==
    LET cleared == [i \in DOMAIN sphs |->
                        IF sphs[i].connectedTo = sphereId
                        THEN disconnect(sphs[i]) ELSE sphs[i]]
    IN  SelectSeq(cleared, LAMBDA s : s.id # sphereId)

RejectsMissingOnly(source, target, sourceId, targetId) ==
    source = NoSphere \/ target = NoSphere

(* The validation of createConnection *)
RejectsConnection(source, target, sourceId, targetId) ==
    source = NoSphere \/ target = NoSphere \/ sourceId = targetId

Init ==
    /\ spheres = <<>>
    /\ selectedSphereId = NULL
    /\ tick = 0
    /\ gameTime = 0
    /\ gameMode = "puzzle"
    /\ stats = ZeroStats
    /\ lastOp = Call("constructor", NULL)
    /\ transfers = <<>>
    /\ snapshot = NoData
    /\ restored = NoState
    /\ hasWon = FALSE
    /\ victoriesShown = 0

(* The spheres are put in place before the simulation runs (as             *)
(* createPuzzleLayout and fromJSON do), one after the other in IdOrder.    *)
AddSphere(id, owner, energy) ==
    /\ tick = 0
    /\ stats.connectionsCreated = 0
    /\ \A j \in LiveIds(spheres) : Rank(j) < Rank(id)
    /\ spheres' = addSphere(spheres, NewSphere(id, PositionOf(id), owner, energy))
    /\ lastOp' = Call("addSphere", UNDEFINED)
    /\ transfers' = <<>>
    /\ UNCHANGED <<selectedSphereId, tick, gameTime, gameMode, stats,
                      snapshot, restored,
                      hasWon, victoriesShown>>

RemoveSphere(sphereId) ==
    /\ spheres' = removeSphere(spheres, sphereId)
    /\ lastOp' = Call("removeSphere", UNDEFINED)
    /\ transfers' = <<>>
    /\ UNCHANGED <<selectedSphereId, tick, gameTime, gameMode, stats,
                      snapshot, restored,
                      hasWon, victoriesShown>>

(* A rejected call is always possible; MaxConnections bounds the           *)
(* connectionsCreated counter.                                             *)
CreateConnection(sourceId, targetId) ==
    LET source == getSphere(sourceId)
        target == getSphere(targetId)
    IN  IF RejectsConnection(source, target, sourceId, targetId)
        THEN /\ lastOp' = Call("createConnection", FALSE)
             /\ transfers' = <<>>
             /\ UNCHANGED <<spheres, selectedSphereId, tick, gameTime, gameMode,
                          stats, snapshot, restored,
                      hasWon, victoriesShown>>
        ELSE /\ stats.connectionsCreated < MaxConnections
             /\ spheres' = [spheres EXCEPT
                    ![IndexOf(spheres, sourceId)] = connect(@, targetId)]
             /\ stats' = [stats EXCEPT !.connectionsCreated = @ + 1]
             /\ lastOp' = Call("createConnection", TRUE)
             /\ transfers' = <<>>
             /\ UNCHANGED <<selectedSphereId, tick, gameTime, gameMode,
                          snapshot, restored,
                      hasWon, victoriesShown>>

DisconnectSphereDropsProgress(sphereId) ==
    /\ spheres' = IF getSphere(sphereId) # NoSphere
                  THEN [i \in DOMAIN spheres |->
                          IF spheres[i].id = sphereId THEN disconnect(spheres[i])
                          ELSE IF /\ spheres[i].id = getSphere(sphereId).connectedTo
                                  /\ spheres[i].owner = "neutral"
                          THEN [spheres[i] EXCEPT !.energy = 0]
                          ELSE spheres[i]]
                  ELSE spheres
    /\ lastOp' = Call("disconnectSphere", UNDEFINED)
    /\ transfers' = <<>>
    /\ UNCHANGED <<selectedSphereId, tick, gameTime, gameMode, stats,
                      snapshot, restored,
                      hasWon, victoriesShown>>

DisconnectSphere(sphereId) ==
    /\ spheres' = IF getSphere(sphereId) # NoSphere
                  THEN [spheres EXCEPT ![IndexOf(spheres, sphereId)] = disconnect(@)]
                  ELSE spheres
    /\ lastOp' = Call("disconnectSphere", UNDEFINED)
    /\ transfers' = <<>>
    /\ UNCHANGED <<selectedSphereId, tick, gameTime, gameMode, stats,
                      snapshot, restored,
                      hasWon, victoriesShown>>

SelectSphere(sphereId) ==
    /\ selectedSphereId' = IF isPlayerSphere(sphereId) THEN sphereId
                           ELSE selectedSphereId
    /\ lastOp' = Call("selectSphere", UNDEFINED)
    /\ transfers' = <<>>
    /\ UNCHANGED <<spheres, tick, gameTime, gameMode, stats,
                      snapshot, restored,
                      hasWon, victoriesShown>>

DeselectSphere ==
    /\ selectedSphereId' = NULL
    /\ lastOp' = Call("deselectSphere", UNDEFINED)
    /\ transfers' = <<>>
    /\ UNCHANGED <<spheres, tick, gameTime, gameMode, stats,
                      snapshot, restored,
                      hasWon, victoriesShown>>

UpdateStepDisconnectsCaptured(deltaTime) ==
    /\ gameTime' = gameTime + deltaTime
    /\ tick' = tick + 1
    /\ LET done == processEnergyTransfer(spheres, stats, deltaTime)
           sphs == done.st.spheres
       IN  /\ spheres' = [i \in DOMAIN sphs |->
                  IF /\ sphs[i].connectedTo \in LiveIds(sphs)
                     /\ SphereIn(sphs, sphs[i].connectedTo).owner = sphs[i].owner
                  THEN disconnect(sphs[i]) ELSE sphs[i]]
           /\ stats' = done.st.stats
           /\ transfers' = done.log
    /\ lastOp' = Call("update", UNDEFINED)
    /\ UNCHANGED <<selectedSphereId, gameMode, snapshot, restored,
                      hasWon, victoriesShown>>

UpdateStep(deltaTime) ==
    /\ gameTime' = gameTime + deltaTime
    /\ tick' = tick + 1
    /\ LET done == processEnergyTransfer(spheres, stats, deltaTime)
       IN  /\ spheres' = done.st.spheres
           /\ stats' = done.st.stats
           /\ transfers' = done.log
    /\ lastOp' = Call("update", UNDEFINED)
    /\ UNCHANGED <<selectedSphereId, gameMode, snapshot, restored,
                      hasWon, victoriesShown>>

(* MaxTick bounds the tick counter. *)
Update(deltaTime) ==
    /\ tick < MaxTick
    /\ UpdateStep(deltaTime)

ResetKeepsStats ==
    /\ spheres' = <<>>
    /\ selectedSphereId' = NULL
    /\ tick' = 0
    /\ gameTime' = 0
    /\ lastOp' = Call("reset", UNDEFINED)
    /\ transfers' = <<>>
    /\ UNCHANGED <<gameMode, stats, snapshot, restored,
                      hasWon, victoriesShown>>

Reset ==
    /\ spheres' = <<>>
    /\ selectedSphereId' = NULL
    /\ tick' = 0
    /\ gameTime' = 0
    /\ stats' = ZeroStats
    /\ lastOp' = Call("reset", UNDEFINED)
    /\ transfers' = <<>>
    /\ UNCHANGED <<gameMode, snapshot, restored,
                      hasWon, victoriesShown>>

Next ==
    \/ \E id \in Ids, owner \in Owners : \E energy \in InitEnergies(owner) :
           AddSphere(id, owner, energy)
    \/ \E id \in Ids : RemoveSphere(id)
    \/ \E s \in Ids, t \in Ids : CreateConnection(s, t)
    \/ \E id \in Ids : DisconnectSphere(id)
    \/ \E id \in Ids : SelectSphere(id)
    \/ DeselectSphere
    \/ \E deltaTime \in DeltaTimes : Update(deltaTime)
    \/ Reset

Spec == Init /\ [][Next]_vars

----------------------------------------------------------------------------
(* One connection, updated again and again                                 *)
(*                                                                         *)
(* A player sphere at the origin at 100%, a neutral sphere at 0% on the x  *)
(* axis, the connection player -> neutral already created, and then        *)
(* nothing but update(deltaTime) with the same deltaTime in every call.    *)

ScenarioTicks == 20
TargetDistances == {0, 3, 4, 5, 12, 1000}
ScenarioDeltaTimes == {-1, 1, 2, 4}

InitScenario ==
    /\ \E d \in TargetDistances :
          spheres = addSphere(
              addSphere(<<>>, connect(NewSphere("a", [x |-> 0, y |-> 0, z |-> 0],
                                                "player", FullEnergy), "b")),
              NewSphere("b", [x |-> d, y |-> 0, z |-> 0], "neutral", 0))
    /\ selectedSphereId = NULL
    /\ tick = 0
    /\ gameTime = 0
    /\ gameMode = "puzzle"
    /\ stats = [ZeroStats EXCEPT !.connectionsCreated = 1]
    /\ lastOp = Call("createConnection", TRUE)
    /\ transfers = <<>>
    /\ snapshot = NoData
    /\ restored = NoState
    /\ hasWon = FALSE
    /\ victoriesShown = 0

(* ScenarioTicks bounds the tick counter. *)
NextScenario ==
    \E deltaTime \in ScenarioDeltaTimes :
        /\ tick < ScenarioTicks
        /\ tick = 0 \/ gameTime = tick * deltaTime
        /\ UpdateStep(deltaTime)

SpecScenario == InitScenario /\ [][NextScenario]_vars

----------------------------------------------------------------------------
(* Snapshots (toJSON / fromJSON of src/src/core/Sphere.js and GameState.js) *)
(*                                                                         *)
(* Sphere.fromJSON builds the position with THREE.Vector3, a name that     *)
(* Sphere.js does not import: this is the page in which THREE is a global  *)
(* (in any other, fromJSON of a state with a sphere throws).               *)

(* toJSON puts this.stats itself into the data object and fromJSON puts    *)
(* data.stats itself into the new GameState: neither copies it. The three  *)
(* hold one object, whose content is the variable stats.                   *)
StatsObject == "this.stats"
StatsOf(holder) == IF holder.stats = StatsObject THEN stats ELSE holder.stats

SphereToJSON(sphere) ==
    [id |-> sphere.id,
     position |-> [x |-> sphere.position.x,
                   y |-> sphere.position.y,
                   z |-> sphere.position.z],
     owner |-> sphere.owner,
     energy |-> sphere.energy,
     connectedTo |-> sphere.connectedTo]

SphereFromJSONNoConnection(data) ==
    NewSphere(data.id, data.position, data.owner, data.energy)

SphereFromJSON(data) ==
    [NewSphere(data.id, data.position, data.owner, data.energy)
        EXCEPT !.connectedTo = data.connectedTo]

toJSON ==
    [spheres |-> [i \in DOMAIN spheres |-> SphereToJSON(spheres[i])],
     selectedSphereId |-> selectedSphereId,
     tick |-> tick,
     gameTime |-> gameTime,
     gameMode |-> gameMode,
     stats |-> StatsObject]

(* data.spheres.forEach: Sphere.fromJSON, then addSphere *)
RECURSIVE RestoreSpheres(_, _)
RestoreSpheres(sphs, sphereDatas) ==
    IF sphereDatas = <<>> THEN sphs
    ELSE RestoreSpheres(addSphere(sphs, SphereFromJSON(Head(sphereDatas))),
                        Tail(sphereDatas))

fromJSON(data) ==
    [spheres |-> RestoreSpheres(<<>>, data.spheres),
     selectedSphereId |-> data.selectedSphereId,
     tick |-> data.tick,
     gameTime |-> data.gameTime,
     gameMode |-> data.gameMode,
     stats |-> data.stats]

(* A snapshot of three spheres, restored and run on next to the original.  *)
(* One snapshot is taken and restored at once; from then on, each update   *)
(* of the original is followed by the same update of the restored state.   *)

RestoreTicks == 3

InitJSON ==
    /\ spheres = addSphere(addSphere(addSphere(<<>>,
            NewSphere("a", PositionOf("a"), "player", FullEnergy)),
            NewSphere("b", PositionOf("b"), "neutral", 0)),
            NewSphere("c", PositionOf("c"), "enemy", FullEnergy))
    /\ selectedSphereId = NULL
    /\ tick = 0
    /\ gameTime = 0
    /\ gameMode = "puzzle"
    /\ stats = ZeroStats
    /\ lastOp = Call("addSphere", UNDEFINED)
    /\ transfers = <<>>
    /\ snapshot = NoData
    /\ restored = NoState
    /\ hasWon = FALSE
    /\ victoriesShown = 0

ToJSON ==
    /\ snapshot = NoData
    /\ snapshot' = toJSON
    /\ lastOp' = Call("toJSON", "data")
    /\ transfers' = <<>>
    /\ UNCHANGED <<spheres, selectedSphereId, tick, gameTime, gameMode, stats, restored,
                      hasWon, victoriesShown>>

FromJSON ==
    /\ snapshot # NoData
    /\ restored = NoState
    /\ restored' = fromJSON(snapshot)
    /\ lastOp' = Call("fromJSON", "state")
    /\ transfers' = <<>>
    /\ UNCHANGED <<spheres, selectedSphereId, tick, gameTime, gameMode, stats, snapshot,
                      hasWon, victoriesShown>>

(* update(deltaTime) of the original, then update(deltaTime) of the        *)
(* restored state; the second goes on from the stats the first left, in    *)
(* the one stats object. RestoreTicks bounds the tick counter.             *)
UpdateBoth(deltaTime) ==
    /\ restored # NoState
    /\ tick < RestoreTicks
    /\ gameTime' = gameTime + deltaTime
    /\ tick' = tick + 1
    /\ LET done == processEnergyTransfer(spheres, stats, deltaTime)
           redone == processEnergyTransfer(restored.spheres, done.st.stats, deltaTime)
       IN  /\ spheres' = done.st.spheres
           /\ transfers' = done.log
           /\ stats' = redone.st.stats
           /\ restored' = [restored EXCEPT !.gameTime = @ + deltaTime,
                                           !.tick = @ + 1,
                                           !.spheres = redone.st.spheres]
    /\ lastOp' = Call("update", UNDEFINED)
    /\ UNCHANGED <<selectedSphereId, gameMode, snapshot,
                      hasWon, victoriesShown>>

NextJSON ==
    \/ snapshot = NoData /\ \E s \in Ids, t \in Ids : CreateConnection(s, t)
    \/ snapshot = NoData /\ \E id \in Ids : SelectSphere(id)
    \/ snapshot = NoData /\ \E deltaTime \in DeltaTimes : Update(deltaTime)
    \/ ToJSON
    \/ FromJSON
    \/ \E deltaTime \in DeltaTimes : UpdateBoth(deltaTime)

SpecJSON == InitJSON /\ [][NextJSON]_vars

----------------------------------------------------------------------------
(* A snapshot restored, then the original and the restored state used      *)
(* separately                                                              *)

(* createConnection of the restored state: its counter is the one in the   *)
(* stats object it was given.                                              *)
RestoredCreateConnection(sourceId, targetId) ==
    LET source == SphereIn(restored.spheres, sourceId)
        target == SphereIn(restored.spheres, targetId)
    IN  /\ restored # NoState
        /\ transfers' = <<>>
        /\ UNCHANGED <<spheres, selectedSphereId, tick, gameTime, gameMode, snapshot,
                      hasWon, victoriesShown>>
        /\ IF RejectsConnection(source, target, sourceId, targetId)
           THEN /\ lastOp' = Call("restored.createConnection", FALSE)
                /\ UNCHANGED <<stats, restored,
                      hasWon, victoriesShown>>
           ELSE /\ StatsOf(restored).connectionsCreated < MaxConnections
                /\ restored' = [restored EXCEPT
                       !.spheres[IndexOf(restored.spheres, sourceId)] =
                           connect(@, targetId)]
                /\ stats' = [stats EXCEPT !.connectionsCreated = @ + 1]
                /\ lastOp' = Call("restored.createConnection", TRUE)

(* update of the restored state; RestoreTicks bounds its tick counter *)
RestoredUpdate(deltaTime) ==
    /\ restored # NoState
    /\ restored.tick < RestoreTicks
    /\ LET done == processEnergyTransfer(restored.spheres, StatsOf(restored),
                                         deltaTime)
       IN  /\ restored' = [restored EXCEPT !.gameTime = @ + deltaTime,
                                           !.tick = @ + 1,
                                           !.spheres = done.st.spheres]
           /\ stats' = done.st.stats
           /\ transfers' = done.log
    /\ lastOp' = Call("restored.update", UNDEFINED)
    /\ UNCHANGED <<spheres, selectedSphereId, tick, gameTime, gameMode, snapshot,
                      hasWon, victoriesShown>>

NextAlias ==
    \/ \E s \in Ids, t \in Ids : CreateConnection(s, t)
    \/ \E deltaTime \in DeltaTimes : Update(deltaTime)
    \/ ToJSON
    \/ FromJSON
    \/ \E s \in Ids, t \in Ids : RestoredCreateConnection(s, t)
    \/ \E deltaTime \in DeltaTimes : RestoredUpdate(deltaTime)

SpecAlias == InitJSON /\ [][NextAlias]_vars

----------------------------------------------------------------------------
(* Four spheres, connected in every way, and updated                       *)

FourIds == {"a", "b", "c", "d"}

(* The four spheres as a layout adds them, connected by createConnection   *)
(* calls that have all succeeded.                                          *)
InitOrder ==
    /\ \E owner \in [FourIds -> Owners] :
       \E connectedTo \in [FourIds -> FourIds \cup {NULL}] :
          /\ \A id \in FourIds : connectedTo[id] # id
          /\ \E energy \in [FourIds -> UNION {InitEnergies(o) : o \in Owners}] :
                /\ \A id \in FourIds : energy[id] \in InitEnergies(owner[id])
                /\ LET Made(id) == [NewSphere(id, PositionOf(id), owner[id], energy[id])
                                       EXCEPT !.connectedTo = connectedTo[id]]
                   IN  spheres = <<Made("a"), Made("b"), Made("c"), Made("d")>>
          /\ stats = [ZeroStats EXCEPT !.connectionsCreated =
                          Cardinality({id \in FourIds : connectedTo[id] # NULL})]
    /\ selectedSphereId = NULL
    /\ tick = 0
    /\ gameTime = 0
    /\ gameMode = "puzzle"
    /\ lastOp = Call("createConnection", TRUE)
    /\ transfers = <<>>
    /\ snapshot = NoData
    /\ restored = NoState
    /\ hasWon = FALSE
    /\ victoriesShown = 0

NextOrder ==
    \E deltaTime \in DeltaTimes : Update(deltaTime)

SpecOrder == InitOrder /\ [][NextOrder]_vars

(* The orders in which n connections can be processed *)
Orders(n) ==
    {order \in [1..n -> 1..n] : \A i \in 1..n, j \in 1..n : order[i] = order[j] => i = j}

(* The result of processEnergyTransfer had forEach taken the connections   *)
(* in the given order.                                                     *)
ProcessInOrder(sphs, sts, deltaTime, order) ==
    LET connections == getActiveConnections(sphs)
    IN  ProcessConnections([spheres |-> sphs, stats |-> sts],
                           [i \in DOMAIN connections |-> connections[order[i]]],
                           deltaTime, <<>>).st

----------------------------------------------------------------------------
(* Clicks (src/src/input/InputHandler.js)                                  *)

(* Three spheres of any owners, as a layout adds them; nothing selected.   *)
InitClick ==
    /\ \E owner \in [Ids -> Owners] :
       \E energy \in [Ids -> UNION {InitEnergies(o) : o \in Owners}] :
          /\ \A id \in Ids : energy[id] \in InitEnergies(owner[id])
          /\ spheres = [i \in DOMAIN IdOrder |->
                           NewSphere(IdOrder[i], PositionOf(IdOrder[i]),
                                     owner[IdOrder[i]], energy[IdOrder[i]])]
    /\ selectedSphereId = NULL
    /\ tick = 0
    /\ gameTime = 0
    /\ gameMode = "puzzle"
    /\ stats = ZeroStats
    /\ lastOp = Call("addSphere", UNDEFINED)
    /\ transfers = <<>>
    /\ snapshot = NoData
    /\ restored = NoState
    /\ hasWon = FALSE
    /\ victoriesShown = 0

(* handleSphereClick: a player sphere is selected (or deselected, when it  *)
(* is the selected one); any other sphere is connected to from the         *)
(* selected one, which is deselected when createConnection succeeds.       *)
(* limit bounds the connectionsCreated counter.                            *)
SphereClick(sphereId, limit) ==
    LET clickedSphere == getSphere(sphereId)
        selectedSphere == getSelectedSphere
    IN  /\ lastOp' = Call("handleSphereClick", UNDEFINED)
        /\ transfers' = <<>>
        /\ UNCHANGED <<tick, gameTime, gameMode, snapshot, restored,
                      hasWon, victoriesShown>>
        /\ IF clickedSphere = NoSphere
           THEN UNCHANGED <<spheres, selectedSphereId, stats>>
           ELSE IF isPlayerSphere(sphereId)
           THEN /\ selectedSphereId' =
                      IF selectedSphere # NoSphere /\ selectedSphere.id = sphereId
                      THEN NULL ELSE sphereId
                /\ UNCHANGED <<spheres, stats>>
           ELSE IF selectedSphere = NoSphere
           THEN UNCHANGED <<spheres, selectedSphereId, stats>>
           ELSE IF RejectsConnection(selectedSphere, clickedSphere,
                                     selectedSphere.id, sphereId)
           THEN UNCHANGED <<spheres, selectedSphereId, stats>>
           ELSE /\ stats.connectionsCreated < limit
                /\ spheres' = [spheres EXCEPT
                       ![IndexOf(spheres, selectedSphere.id)] = connect(@, sphereId)]
                /\ stats' = [stats EXCEPT !.connectionsCreated = @ + 1]
                /\ selectedSphereId' = NULL

HandleSphereClick(sphereId) ==
    SphereClick(sphereId, MaxConnections)

(* handleEmptyClick *)
HandleEmptyClick ==
    /\ selectedSphereId' = IF getSelectedSphere # NoSphere THEN NULL
                           ELSE selectedSphereId
    /\ lastOp' = Call("handleEmptyClick", UNDEFINED)
    /\ transfers' = <<>>
    /\ UNCHANGED <<spheres, tick, gameTime, gameMode, stats, snapshot, restored,
                      hasWon, victoriesShown>>

NextClick ==
    \/ \E id \in Ids : HandleSphereClick(id)
    \/ HandleEmptyClick

SpecClick == InitClick /\ [][NextClick]_vars

----------------------------------------------------------------------------
(* The puzzle layout (GameState.createPuzzleLayout)                        *)

radius == 4

PuzzleOrder ==
    <<"center", "sphere-0", "sphere-1", "sphere-2", "sphere-3", "sphere-4",
      "sphere-5">>
PuzzleIds == {PuzzleOrder[i] : i \in DOMAIN PuzzleOrder}

(* (cos, sin) * radius of the angle i * 60 degrees, rounded to the unit of *)
(* the positions of this model (radius * sin 60 = 3.46 is 3).              *)
RingPosition(i) ==
    CASE i = 0 -> [x |-> radius, y |-> 0, z |-> 0]
      [] i = 1 -> [x |-> radius \div 2, y |-> 3, z |-> 0]
      [] i = 2 -> [x |-> -(radius \div 2), y |-> 3, z |-> 0]
      [] i = 3 -> [x |-> -radius, y |-> 0, z |-> 0]
      [] i = 4 -> [x |-> -(radius \div 2), y |-> -3, z |-> 0]
      [] OTHER -> [x |-> radius \div 2, y |-> -3, z |-> 0]

RECURSIVE AddRing(_, _)
AddRing(sphs, i) ==
    IF i >= Len(PuzzleOrder) - 1 THEN sphs
    ELSE AddRing(addSphere(sphs, NewSphere(PuzzleOrder[i + 2], RingPosition(i),
                                           "neutral", 0)),
                 i + 1)

createPuzzleLayout(sphs) ==
    AddRing(addSphere(sphs, NewSphere("center", [x |-> 0, y |-> 0, z |-> 0],
                                      "player", FullEnergy)),
            0)

(* deltaTime of an update of the puzzle: never negative *)
PuzzleDeltaTimes == {0, 4, 10}

InitPuzzle ==
    /\ spheres = createPuzzleLayout(<<>>)
    /\ selectedSphereId = NULL
    /\ tick = 0
    /\ gameTime = 0
    /\ gameMode = "puzzle"
    /\ stats = ZeroStats
    /\ lastOp = Call("createPuzzleLayout", UNDEFINED)
    /\ transfers = <<>>
    /\ snapshot = NoData
    /\ restored = NoState
    /\ hasWon = FALSE
    /\ victoriesShown = 0

NextPuzzle ==
    \/ \E s \in PuzzleIds, t \in PuzzleIds : CreateConnection(s, t)
    \/ \E deltaTime \in PuzzleDeltaTimes : Update(deltaTime)

SpecPuzzle == InitPuzzle /\ [][NextPuzzle]_vars

(* The puzzle with updates of any deltaTime *)
SignedDeltaTimes == {-4, 0, 4, 10}

NextPuzzleSigned ==
    \/ \E s \in PuzzleIds, t \in PuzzleIds : CreateConnection(s, t)
    \/ \E deltaTime \in SignedDeltaTimes : Update(deltaTime)

SpecPuzzleSigned == InitPuzzle /\ [][NextPuzzleSigned]_vars

----------------------------------------------------------------------------
(* The Game (src/src/main.js): frames, clicks and restarts on the puzzle   *)

GameTicks == 7
GameConnections == 6
GameVictories == 2

(* A frame long enough for a capture between neighbours *)
FrameTimes == {10}

InitGame ==
    /\ spheres = createPuzzleLayout(<<>>)
    /\ selectedSphereId = NULL
    /\ tick = 0
    /\ gameTime = 0
    /\ gameMode = "puzzle"
    /\ stats = ZeroStats
    /\ lastOp = Call("init", UNDEFINED)
    /\ transfers = <<>>
    /\ snapshot = NoData
    /\ restored = NoState
    /\ hasWon = FALSE
    /\ victoriesShown = 0

LoopShowsEveryVictory(deltaTime) ==
    /\ tick < GameTicks
    /\ gameTime' = gameTime + deltaTime
    /\ tick' = tick + 1
    /\ LET done == processEnergyTransfer(spheres, stats, deltaTime)
       IN  /\ spheres' = done.st.spheres
           /\ stats' = done.st.stats
           /\ transfers' = done.log
    /\ IF checkVictory'
       THEN /\ hasWon' = TRUE
            /\ victoriesShown' = victoriesShown + 1
            /\ lastOp' = Call("loop", "showVictory")
       ELSE /\ UNCHANGED <<hasWon, victoriesShown>>
            /\ lastOp' = Call("loop", UNDEFINED)
    /\ UNCHANGED <<selectedSphereId, gameMode, snapshot, restored>>

(* Game.loop: Game.update calls state.update and then, unless hasWon,      *)
(* checkVictory on the state it left; showVictory sets hasWon. GameTicks   *)
(* bounds the tick counter.                                                *)
Loop(deltaTime) ==
    /\ tick < GameTicks
    /\ gameTime' = gameTime + deltaTime
    /\ tick' = tick + 1
    /\ LET done == processEnergyTransfer(spheres, stats, deltaTime)
       IN  /\ spheres' = done.st.spheres
           /\ stats' = done.st.stats
           /\ transfers' = done.log
    /\ IF ~hasWon /\ checkVictory'
       THEN /\ hasWon' = TRUE
            /\ victoriesShown' = victoriesShown + 1
            /\ lastOp' = Call("loop", "showVictory")
       ELSE /\ UNCHANGED <<hasWon, victoriesShown>>
            /\ lastOp' = Call("loop", UNDEFINED)
    /\ UNCHANGED <<selectedSphereId, gameMode, snapshot, restored>>

(* Game.restart: the latch is cleared, every sphere is disconnected, the   *)
(* state is reset and the puzzle layout is created again. GameVictories    *)
(* bounds the victoriesShown counter.                                      *)
Restart ==
    /\ victoriesShown < GameVictories
    /\ hasWon' = FALSE
    /\ spheres' = createPuzzleLayout(<<>>)
    /\ selectedSphereId' = NULL
    /\ tick' = 0
    /\ gameTime' = 0
    /\ stats' = ZeroStats
    /\ lastOp' = Call("restart", UNDEFINED)
    /\ transfers' = <<>>
    /\ UNCHANGED <<gameMode, snapshot, restored, victoriesShown>>

(* The spheres the player of this model clicks: their own and, working     *)
(* round the ring, the first in layout order that is not theirs yet.       *)
ClickedIds ==
    {id \in LiveIds(spheres) :
        \/ isPlayerSphere(id)
        \/ \A i \in 1..(IndexOf(spheres, id) - 1) : spheres[i].owner = "player"}

NextGame ==
    \/ \E id \in ClickedIds : SphereClick(id, GameConnections)
    \/ HandleEmptyClick
    \/ \E deltaTime \in FrameTimes : Loop(deltaTime)
    \/ Restart

SpecGame == InitGame /\ [][NextGame]_vars

----------------------------------------------------------------------------
(* Properties                                                              *)

(* Everything in the GameState but the record of the last call *)
gameState == <<spheres, selectedSphereId, tick, gameTime, gameMode, stats>>

Live == LiveIds(spheres)

PlayerOwned(id) ==
    \E i \in DOMAIN spheres : spheres[i].id = id /\ spheres[i].owner = "player"

Connected == {i \in DOMAIN spheres : spheres[i].connectedTo # NULL}

Empty(attackingOwner) == attackingOwner \in {NULL, UNDEFINED}

(* The target of a transfer record before and after its connection was     *)
(* processed.                                                              *)
TargetBefore(r) == SphereIn(r.before.spheres, r.target)
TargetAfter(r) == SphereIn(r.after.spheres, r.target)

(* C1: every sphere has at most one outgoing connectedTo (one id or        *)
(* none), and a successful createConnection(s, t) leaves s connected to t  *)
(* only, whatever s was connected to before, and adds exactly one to       *)
(* connectionsCreated.                                                     *)
SingleConnectionRule ==
    [][/\ \A i \in DOMAIN spheres' : spheres'[i].connectedTo \in Ids \cup {NULL}
       /\ \A s \in Ids, t \in Ids :
            (/\ lastOp'.op = "createConnection"
             /\ lastOp'.ret = TRUE
             /\ CreateConnection(s, t))
            => /\ SphereIn(spheres', s).connectedTo = t
               /\ stats'.connectionsCreated = stats.connectionsCreated + 1]_vars

(* A second createConnection succeeded from the one sphere that is         *)
(* connected.                                                              *)
ReplacedConnection ==
    /\ lastOp = Call("createConnection", TRUE)
    /\ stats.connectionsCreated = 2
    /\ Len(spheres) = 3
    /\ Connected = {1}
    /\ spheres[1].connectedTo = "c"

(* C2: createConnection(s, t) with s = t, or with s or t not a live        *)
(* sphere, returns false and changes nothing in the GameState: no sphere,  *)
(* not the selection, no counter.                                          *)
RejectedConnectionChangesNothing ==
    [][\A s \in Ids, t \in Ids :
            (/\ lastOp'.op = "createConnection"
             /\ CreateConnection(s, t)
             /\ (s = t \/ s \notin Live \/ t \notin Live))
            => /\ lastOp'.ret = FALSE
               /\ UNCHANGED gameState]_vars

(* A createConnection was rejected in a state that has a connection, a     *)
(* selection and a counter to lose.                                        *)
RejectedConnection ==
    /\ lastOp = Call("createConnection", FALSE)
    /\ Len(spheres) = 3
    /\ Connected # {}
    /\ selectedSphereId # NULL
    /\ stats.connectionsCreated > 0

(* C3: every sphere has 0 <= energy <= 100. *)
EnergyBounds ==
    \A i \in DOMAIN spheres :
        0 <= spheres[i].energy /\ spheres[i].energy <= FullEnergy

(* An update added more than the target could take, and another took more *)
(* than the target had.                                                    *)
EnergyClamped ==
    /\ \E k \in DOMAIN transfers :
           /\ TargetBefore(transfers[k]).owner = "neutral"
           /\ TargetAfter(transfers[k]).owner # "neutral"
           /\ TargetBefore(transfers[k]).energy + transfers[k].amount > FullEnergy
    /\ \E k \in DOMAIN transfers :
           /\ TargetBefore(transfers[k]).owner # "neutral"
           /\ TargetAfter(transfers[k]).owner = "neutral"
           /\ TargetBefore(transfers[k]).energy - transfers[k].amount < 0

(* C4: when a connection from a player or enemy source into a neutral      *)
(* target is processed and the energy reaches 100 or more, the target is   *)
(* left at exactly 100, owned by the source's owner, with no               *)
(* attackingOwner; below 100 it stays neutral with the source's owner as   *)
(* attackingOwner.                                                         *)
CaptureCompleteness ==
    \A k \in DOMAIN transfers :
        LET r == transfers[k]
        IN  (r.sourceOwner \in {"player", "enemy"} /\ TargetBefore(r).owner = "neutral")
            => IF TargetBefore(r).energy + r.amount >= FullEnergy
               THEN /\ TargetAfter(r).energy = FullEnergy
                    /\ TargetAfter(r).owner = r.sourceOwner
                    /\ Empty(TargetAfter(r).attackingOwner)
               ELSE /\ TargetAfter(r).energy < FullEnergy
                    /\ TargetAfter(r).owner = "neutral"
                    /\ TargetAfter(r).attackingOwner = r.sourceOwner

(* One update completed a capture that an earlier update had started. *)
CaptureCompleted ==
    \E k \in DOMAIN transfers :
        /\ transfers[k].sourceOwner \in {"player", "enemy"}
        /\ TargetBefore(transfers[k]).owner = "neutral"
        /\ TargetBefore(transfers[k]).energy > 0
        /\ TargetBefore(transfers[k]).attackingOwner = transfers[k].sourceOwner
        /\ TargetAfter(transfers[k]).owner = transfers[k].sourceOwner

(* C5: when a connection into a target owned by the other non-neutral      *)
(* owner is processed and the energy reaches 0 or less, the target is left *)
(* at exactly 0, neutral (not owned by the attacker), with no              *)
(* attackingOwner.                                                         *)
ReversionCompleteness ==
    \A k \in DOMAIN transfers :
        LET r == transfers[k]
        IN  (/\ r.sourceOwner \in {"player", "enemy"}
             /\ TargetBefore(r).owner \in {"player", "enemy"} \ {r.sourceOwner}
             /\ TargetBefore(r).energy - r.amount <= 0)
            => /\ TargetAfter(r).energy = 0
               /\ TargetAfter(r).owner = "neutral"
               /\ Empty(TargetAfter(r).attackingOwner)

(* One update completed a reversion that an earlier update had started. *)
ReversionCompleted ==
    \E k \in DOMAIN transfers :
        /\ transfers[k].sourceOwner \in {"player", "enemy"}
        /\ TargetBefore(transfers[k]).owner \in {"player", "enemy"} \ {transfers[k].sourceOwner}
        /\ TargetBefore(transfers[k]).energy < FullEnergy
        /\ TargetBefore(transfers[k]).attackingOwner = transfers[k].sourceOwner
        /\ TargetAfter(transfers[k]).owner = "neutral"

(* C6: a connection whose source is neutral when it is processed changes   *)
(* neither the target's energy, owner or attackingOwner nor any counter.   *)
NeutralNonProduction ==
    \A k \in DOMAIN transfers :
        LET r == transfers[k]
        IN  r.sourceOwner = "neutral"
            => /\ TargetAfter(r).energy = TargetBefore(r).energy
               /\ TargetAfter(r).owner = TargetBefore(r).owner
               /\ TargetAfter(r).attackingOwner = TargetBefore(r).attackingOwner
               /\ r.after.stats = r.before.stats

(* One update processed connections from neutral sources into a neutral    *)
(* target and into an owned target.                                        *)
NeutralSourceProcessed ==
    /\ \E k \in DOMAIN transfers :
           /\ transfers[k].sourceOwner = "neutral"
           /\ TargetBefore(transfers[k]).owner = "neutral"
    /\ \E k \in DOMAIN transfers :
           /\ transfers[k].sourceOwner = "neutral"
           /\ TargetBefore(transfers[k]).owner # "neutral"

(* C7: checkVictory() is true exactly when there is at least one sphere    *)
(* and every sphere is owned by player; it is false right after reset.     *)
VictoryExactness ==
    /\ checkVictory <=>
           (spheres # <<>> /\ \A i \in DOMAIN spheres : spheres[i].owner = "player")
    /\ lastOp.op = "reset" => ~checkVictory

(* Victory reached by capturing: all three spheres are player's after an   *)
(* update.                                                                 *)
VictoryByCapture ==
    /\ checkVictory
    /\ lastOp.op = "update"
    /\ Len(spheres) = 3
    /\ stats.spheresCaptured > 0

(* C8: selectSphere(id) sets the selection to id when id is a live sphere  *)
(* owned by player, and otherwise leaves the selection as it was; it       *)
(* changes nothing else.                                                   *)
SelectionPolicy ==
    [][\A id \in Ids :
            (lastOp'.op = "selectSphere" /\ SelectSphere(id))
            => /\ selectedSphereId' = IF PlayerOwned(id) THEN id ELSE selectedSphereId
               /\ UNCHANGED <<spheres, tick, gameTime, gameMode, stats>>]_vars

(* selectSphere was called with a non-player sphere, a player sphere and   *)
(* an unknown id at hand, and the player sphere is selected.               *)
SelectionMade ==
    /\ lastOp.op = "selectSphere"
    /\ Len(spheres) = 2
    /\ spheres[1].owner = "enemy"
    /\ spheres[2].owner = "player"
    /\ selectedSphereId = spheres[2].id

(* C9: the selected id is none or the id of a live sphere owned by player. *)
SelectionInvariant ==
    selectedSphereId = NULL \/ PlayerOwned(selectedSphereId)

(* C10: connectedTo is none or the id of another live sphere, and          *)
(* removeSphere(x) deletes x and clears connectedTo on exactly the spheres *)
(* that pointed at x.                                                      *)
ConnectionWellFormed ==
    [][/\ \A i \in DOMAIN spheres' :
            \/ spheres'[i].connectedTo = NULL
            \/ /\ spheres'[i].connectedTo \in LiveIds(spheres')
               /\ spheres'[i].connectedTo # spheres'[i].id
       /\ \A x \in Ids :
            (lastOp'.op = "removeSphere" /\ RemoveSphere(x))
            => /\ LiveIds(spheres') = Live \ {x}
               /\ \A id \in Live \ {x} :
                    SphereIn(spheres', id) =
                        IF SphereIn(spheres, id).connectedTo = x
                        THEN [SphereIn(spheres, id) EXCEPT !.connectedTo = NULL]
                        ELSE SphereIn(spheres, id)]_vars

(* removeSphere took the middle sphere away: the connection into it is     *)
(* cleared, the connection between the two others is kept.                 *)
RemovedTarget ==
    /\ lastOp.op = "removeSphere"
    /\ stats.connectionsCreated = 2
    /\ LiveIds(spheres) = {"a", "c"}
    /\ SphereIn(spheres, "a").connectedTo = NULL
    /\ SphereIn(spheres, "c").connectedTo = "a"

(* The two spheres of the one-connection scenario, and the deltaTime of    *)
(* its updates once there has been one.                                    *)
ScenarioSource == spheres[1]
ScenarioTarget == spheres[2]
ScenarioDistance == distanceTo(ScenarioSource, ScenarioTarget)
ScenarioDeltaTime == gameTime \div tick

(* C11: with a player sphere connected to a neutral target at any finite   *)
(* distance, nothing else connected to either, and update called again and *)
(* again with one positive deltaTime, the target's owner becomes player    *)
(* after finitely many updates: the connection never stalls. An update     *)
(* sees nothing of tick and gameTime, so one that neither captures the     *)
(* target nor raises its energy leaves the spheres as they were and every  *)
(* later update does the same; the claim is that there is no such update.  *)
CaptureProgress ==
    [][\A deltaTime \in ScenarioDeltaTimes :
            (/\ deltaTime > 0
             /\ ScenarioTarget.owner = "neutral"
             /\ UpdateStep(deltaTime))
            => \/ ScenarioTarget'.owner = "player"
               \/ ScenarioTarget'.energy > ScenarioTarget.energy]_vars

(* attackingOwner is the same when it names the same owner or is empty in  *)
(* both.                                                                   *)
SameAttacker(a, b) == a = b \/ (Empty(a) /\ Empty(b))

(* C12: fromJSON(toJSON(s)) has the same spheres as s, each with the same  *)
(* id, position, owner, energy, connectedTo and attackingOwner, and the    *)
(* same selected id, tick, gameTime, gameMode and stats.                   *)
RoundTrip ==
    lastOp.op = "fromJSON"
    => /\ Len(restored.spheres) = Len(spheres)
       /\ \A i \in DOMAIN spheres :
            /\ restored.spheres[i].id = spheres[i].id
            /\ restored.spheres[i].position = spheres[i].position
            /\ restored.spheres[i].owner = spheres[i].owner
            /\ restored.spheres[i].energy = spheres[i].energy
            /\ restored.spheres[i].connectedTo = spheres[i].connectedTo
            /\ SameAttacker(restored.spheres[i].attackingOwner,
                            spheres[i].attackingOwner)
       /\ restored.selectedSphereId = selectedSphereId
       /\ restored.tick = tick
       /\ restored.gameTime = gameTime
       /\ restored.gameMode = gameMode
       /\ StatsOf(restored) = stats

(* C13: a state restored from a snapshot of s and s itself, driven by the  *)
(* same update(deltaTime) calls, are equal after every call in each        *)
(* sphere's owner, energy and connectedTo, and in tick, gameTime and       *)
(* stats.                                                                  *)
RestoreEquivalence ==
    restored # NoState
    => /\ Len(restored.spheres) = Len(spheres)
       /\ \A i \in DOMAIN spheres :
            /\ restored.spheres[i].id = spheres[i].id
            /\ restored.spheres[i].owner = spheres[i].owner
            /\ restored.spheres[i].energy = spheres[i].energy
            /\ restored.spheres[i].connectedTo = spheres[i].connectedTo
       /\ restored.tick = tick
       /\ restored.gameTime = gameTime
       /\ StatsOf(restored) = stats

(* Two updates after the restore, with a sphere that has changed owner     *)
(* since the snapshot and another that is part-way.                        *)
RestoredAndRun ==
    /\ restored # NoState
    /\ restored.tick >= snapshot.tick + 2
    /\ \E i \in DOMAIN spheres : spheres[i].owner # snapshot.spheres[i].owner
    /\ \E i \in DOMAIN spheres :
           spheres[i].energy \notin {0, FullEnergy, snapshot.spheres[i].energy}

(* C14: update with a negative deltaTime is refused: it changes no         *)
(* sphere's energy or owner, and neither tick nor gameTime.                *)
NegativeDeltaTimeRejected ==
    [][\A deltaTime \in ScenarioDeltaTimes :
            (deltaTime < 0 /\ UpdateStep(deltaTime))
            => /\ \A i \in DOMAIN spheres :
                    /\ spheres'[i].energy = spheres[i].energy
                    /\ spheres'[i].owner = spheres[i].owner
               /\ tick' = tick
               /\ gameTime' = gameTime]_vars

(* C15: with the player sphere at (0,0,0) at 100, the neutral sphere at    *)
(* (4,0,0) at 0 and the connection player -> neutral, the neutral sphere   *)
(* is still neutral after each of the first 7 calls of update(1) and after *)
(* the 8th its owner is player, its energy 100, spheresCaptured 1 and      *)
(* checkVictory() true.                                                    *)
ExampleScenario ==
    (ScenarioTarget.position.x = 4 /\ tick > 0 /\ gameTime = tick)
    => /\ tick <= 7 => ScenarioTarget.owner = "neutral"
       /\ tick = 8 => /\ ScenarioTarget.owner = "player"
                      /\ ScenarioTarget.energy = FullEnergy
                      /\ stats.spheresCaptured = 1
                      /\ checkVictory

(* The 8th update(1) of the example has run and has made the capture. *)
ExampleCaptured ==
    /\ ScenarioSource.position = [x |-> 0, y |-> 0, z |-> 0]
    /\ ScenarioTarget.position = [x |-> 4, y |-> 0, z |-> 0]
    /\ tick = 8
    /\ gameTime = 8
    /\ \E k \in DOMAIN transfers :
           /\ TargetBefore(transfers[k]).owner = "neutral"
           /\ TargetAfter(transfers[k]).owner = "player"

(* C16: for a positive deltaTime, the energyAmount of a connection is      *)
(* strictly positive at every distance and strictly smaller at every       *)
(* larger distance, with the maximum BASE_ENERGY_RATE * deltaTime at       *)
(* distance 0.                                                             *)
AttenuationMonotonicity ==
    \A k \in DOMAIN transfers :
        gameTime > 0
        => /\ transfers[k].amount > 0
           /\ transfers[k].amount <= BASE_ENERGY_RATE * EnergyScale * ScenarioDeltaTime
           /\ ScenarioDistance = 0
                => transfers[k].amount = BASE_ENERGY_RATE * EnergyScale * ScenarioDeltaTime
           /\ \A d \in TargetDistances :
                /\ d > ScenarioDistance
                    => energyAmount(d, ScenarioDeltaTime) < transfers[k].amount
                /\ d < ScenarioDistance
                    => energyAmount(d, ScenarioDeltaTime) > transfers[k].amount

(* C17: spheresCaptured goes up by exactly one when a connection from a    *)
(* player source brings a neutral target to 100 (the target becomes        *)
(* player's), and is left as it is by every other connection: a capture by *)
(* enemy, a reversion to neutral, same-owner maintenance, a capture or an  *)
(* attack still in progress.                                               *)
CapturedCounter ==
    \A k \in DOMAIN transfers :
        LET r == transfers[k]
            playerCapture == /\ r.sourceOwner = "player"
                             /\ TargetBefore(r).owner = "neutral"
                             /\ TargetAfter(r).owner = "player"
        IN  r.after.stats.spheresCaptured =
                r.before.stats.spheresCaptured + (IF playerCapture THEN 1 ELSE 0)

(* One update in which player completed a capture and enemy brought a      *)
(* player sphere back to neutral: the counter went up by one.              *)
CaptureCounted ==
    /\ \E k \in DOMAIN transfers :
           /\ transfers[k].sourceOwner = "player"
           /\ TargetBefore(transfers[k]).owner = "neutral"
           /\ TargetAfter(transfers[k]).owner = "player"
    /\ \E k \in DOMAIN transfers :
           /\ transfers[k].sourceOwner = "enemy"
           /\ TargetBefore(transfers[k]).owner = "player"
           /\ TargetAfter(transfers[k]).owner = "neutral"
    /\ stats.spheresCaptured = 1

(* C18: after reset() there are no spheres and no selection, tick and      *)
(* gameTime are 0 and the three stats counters are 0, whatever the state   *)
(* was before; no sphere is recreated, so checkVictory() is false.         *)
ResetClears ==
    [][lastOp'.op = "reset"
       => /\ spheres' = <<>>
          /\ selectedSphereId' = NULL
          /\ tick' = 0
          /\ gameTime' = 0
          /\ stats' = ZeroStats
          /\ ~checkVictory']_vars

(* reset() has run and nothing has been added since. *)
ResetDone ==
    /\ lastOp.op = "reset"
    /\ spheres = <<>>
    /\ stats.connectionsCreated = 0

(* C19: a connection whose source and target have the same non-neutral     *)
(* owner leaves the target at exactly 100 with attackingOwner cleared, and *)
(* its owner, spheresCaptured and energyTransferred as they were; on a     *)
(* target that is already so it changes nothing.                           *)
SameOwnerMaintenance ==
    \A k \in DOMAIN transfers :
        LET r == transfers[k]
        IN  (r.sourceOwner # "neutral" /\ TargetBefore(r).owner = r.sourceOwner)
            => /\ TargetAfter(r).energy = FullEnergy
               /\ TargetAfter(r).attackingOwner = NULL
               /\ TargetAfter(r).owner = TargetBefore(r).owner
               /\ r.after.stats = r.before.stats
               /\ MaintainOwned(TargetAfter(r)) = TargetAfter(r)
               /\ (/\ TargetBefore(r).energy = FullEnergy
                   /\ TargetBefore(r).attackingOwner = NULL) => r.after = r.before

(* A sphere that an enemy had brought below 100 is back at 100 through a   *)
(* connection from a sphere of its own owner.                              *)
Maintained ==
    \E k \in DOMAIN transfers :
        /\ transfers[k].sourceOwner = "player"
        /\ TargetBefore(transfers[k]).owner = "player"
        /\ TargetBefore(transfers[k]).energy < FullEnergy
        /\ TargetBefore(transfers[k]).attackingOwner = "enemy"
        /\ TargetAfter(transfers[k]).energy = FullEnergy

(* No sphere is the source of one active connection and the target of      *)
(* another; no two active connections have the same target.                *)
NoSourceIsTarget(sphs) ==
    LET connections == getActiveConnections(sphs)
    IN  \A i \in DOMAIN connections, j \in DOMAIN connections :
            connections[i].source # connections[j].target

DistinctTargets(sphs) ==
    LET connections == getActiveConnections(sphs)
    IN  \A i \in DOMAIN connections, j \in DOMAIN connections :
            connections[i].target = connections[j].target => i = j

SameSpheres(st, other) ==
    \A i \in DOMAIN st.spheres :
        /\ st.spheres[i].owner = other.spheres[i].owner
        /\ st.spheres[i].energy = other.spheres[i].energy
        /\ st.spheres[i].attackingOwner = other.spheres[i].attackingOwner

(* The result of an update of the present state with the connections taken *)
(* in the given order, and in the order of the code.                       *)
Reordered(deltaTime, order) == ProcessInOrder(spheres, stats, deltaTime, order)
InOrder(deltaTime) == processEnergyTransfer(spheres, stats, deltaTime).st

(* C20 as claimed: in a state in which no sphere is both the source of one *)
(* active connection and the target of another, the connections of one     *)
(* update processed in any order give the same owner, energy and           *)
(* attackingOwner of every sphere and the same stats.                      *)
OrderIndependence ==
    NoSourceIsTarget(spheres)
    => \A deltaTime \in DeltaTimes :
       \A order \in Orders(Len(getActiveConnections(spheres))) :
            /\ SameSpheres(Reordered(deltaTime, order), InOrder(deltaTime))
            /\ Reordered(deltaTime, order).stats = InOrder(deltaTime).stats

(* C20: in a state in which no sphere is both the source of one active     *)
(* connection and the target of another, and no two active connections     *)
(* have the same target, the connections of one update processed in any    *)
(* order give the same owner, energy and attackingOwner of every sphere    *)
(* and the same spheresCaptured and connectionsCreated.                    *)
OrderIndependenceOfDistinctTargets ==
    (NoSourceIsTarget(spheres) /\ DistinctTargets(spheres))
    => \A deltaTime \in DeltaTimes :
       \A order \in Orders(Len(getActiveConnections(spheres))) :
            LET st == Reordered(deltaTime, order)
            IN  /\ SameSpheres(st, InOrder(deltaTime))
                /\ st.stats.spheresCaptured = InOrder(deltaTime).stats.spheresCaptured
                /\ st.stats.connectionsCreated = InOrder(deltaTime).stats.connectionsCreated

(* An update has run over two connections with different targets, player  *)
(* into a neutral sphere and enemy into a player sphere, neither finished, *)
(* and the next update will finish both.                                   *)
TwoSeparateConnections ==
    /\ lastOp.op = "update"
    /\ NoSourceIsTarget(spheres)
    /\ DistinctTargets(spheres)
    /\ Len(transfers) = 2
    /\ transfers[1].sourceOwner = "player"
    /\ TargetAfter(transfers[1]).owner = "neutral"
    /\ TargetAfter(transfers[1]).energy > 0
    /\ transfers[2].sourceOwner = "enemy"
    /\ TargetAfter(transfers[2]).owner = "player"
    /\ TargetAfter(transfers[2]).energy < FullEnergy

(* C21: attackingOwner is cleared when the contest ends: a sphere that no  *)
(* connection from a differently-owned source targets (the attacker has    *)
(* disconnected, retargeted or been removed, or the capture or reversion   *)
(* is complete) has an empty attackingOwner after the next update.         *)
AttackerClearedWhenIdle ==
    [][lastOp'.op = "update"
       => \A i \in DOMAIN spheres :
            (\A j \in DOMAIN spheres :
                spheres[j].connectedTo = spheres[i].id
                => /\ spheres[j].owner = spheres[i].owner
                   /\ spheres'[j].owner = spheres'[i].owner)
            => Empty(spheres'[i].attackingOwner)]_vars

(* The spheres that some sphere is connected to *)
Targeted == {i \in DOMAIN spheres :
                \E j \in DOMAIN spheres : spheres[j].connectedTo = spheres[i].id}

(* C22: a source does not pay for what it transfers: update changes the    *)
(* energy and the owner of no sphere but the targets of connections; a     *)
(* sphere that is a source and the target of none keeps both.              *)
SourceKeepsEnergy ==
    [][lastOp'.op = "update"
       => \A i \in DOMAIN spheres \ Targeted :
            /\ spheres'[i].energy = spheres[i].energy
            /\ spheres'[i].owner = spheres[i].owner]_vars

(* An update has taken energy to a target from a source that an enemy had  *)
(* brought below 100 before and that nothing targets now: the source is    *)
(* where it was.                                                           *)
SourceUnpaid ==
    /\ lastOp.op = "update"
    /\ \E k \in DOMAIN transfers :
           /\ transfers[k].amount > 0
           /\ transfers[k].sourceOwner = "player"
           /\ TargetAfter(transfers[k]).energy # TargetBefore(transfers[k]).energy
           /\ \E i \in Connected \ Targeted :
                 /\ spheres[i].id = transfers[k].source
                 /\ spheres[i].energy < FullEnergy
                 /\ spheres[i].energy = SphereIn(transfers[k].before.spheres,
                                                 transfers[k].source).energy

(* C23: with a player sphere S selected, a click on any other sphere X,    *)
(* whatever its owner, creates the connection S -> X; a click on a         *)
(* player-owned sphere with nothing selected selects it; a click on empty  *)
(* space clears the selection.                                             *)
ClickModel ==
    [][/\ \A x \in Live :
            (lastOp'.op = "handleSphereClick" /\ HandleSphereClick(x))
            => /\ (PlayerOwned(selectedSphereId) /\ x # selectedSphereId)
                    => SphereIn(spheres', selectedSphereId).connectedTo = x
               /\ (selectedSphereId = NULL /\ PlayerOwned(x))
                    => selectedSphereId' = x
       /\ lastOp'.op = "handleEmptyClick" => selectedSphereId' = NULL]_vars


(* C24: from the puzzle layout, after any createConnection and update      *)
(* calls with non-negative deltaTime, every neutral sphere is below 100%   *)
(* and every owned sphere is above 0%.                                     *)
EnergyOwnershipCoupling ==
    \A i \in DOMAIN spheres :
        /\ spheres[i].owner = "neutral" => spheres[i].energy < FullEnergy
        /\ spheres[i].owner # "neutral" => spheres[i].energy > 0

(* An update has captured one ring sphere and left another one part of the *)
(* way.                                                                    *)
CapturedAndCharging ==
    /\ lastOp.op = "update"
    /\ \E k \in DOMAIN transfers :
          /\ TargetBefore(transfers[k]).owner = "neutral"
          /\ TargetAfter(transfers[k]).owner = "player"
    /\ \E i \in DOMAIN spheres :
          /\ spheres[i].owner = "neutral"
          /\ spheres[i].energy > 0


(* C25: once a snapshot of s is restored as r, createConnection and update *)
(* of r change neither the stats counters of s nor the values recorded in  *)
(* the snapshot, and createConnection and update of s do not change the    *)
(* counters of r.                                                          *)
SnapshotIndependence ==
    [][/\ lastOp'.op \in {"restored.createConnection", "restored.update"}
            => /\ stats' = stats
               /\ snapshot' = snapshot
               /\ StatsOf(snapshot)' = StatsOf(snapshot)
       /\ (restored # NoState /\ lastOp'.op \in {"createConnection", "update"})
            => StatsOf(restored)' = StatsOf(restored)]_vars


(* C26: update changes no sphere's connectedTo (a connection stays in      *)
(* place after its target is captured or reverted), id or position, nor    *)
(* the set of spheres, the selected id, the game mode or                   *)
(* connectionsCreated; it moves tick and gameTime on.                      *)
UpdateFrame ==
    [][lastOp'.op = "update"
       => /\ DOMAIN spheres' = DOMAIN spheres
          /\ \A i \in DOMAIN spheres :
                /\ spheres'[i].id = spheres[i].id
                /\ spheres'[i].position = spheres[i].position
                /\ spheres'[i].connectedTo = spheres[i].connectedTo
          /\ selectedSphereId' = selectedSphereId
          /\ gameMode' = gameMode
          /\ stats'.connectionsCreated = stats.connectionsCreated
          /\ tick' = tick + 1]_vars

(* An update has just changed the owner of a target, a sphere is selected  *)
(* and the connection into the target is still there.                      *)
ConnectionOutlivesCapture ==
    /\ lastOp.op = "update"
    /\ selectedSphereId # NULL
    /\ \E k \in DOMAIN transfers :
          /\ TargetBefore(transfers[k]).owner # TargetAfter(transfers[k]).owner
          /\ SphereIn(spheres, transfers[k].source).connectedTo = transfers[k].target


(* C27: the connections of one update are taken in insertion order of      *)
(* their sources and each reads the owners as they then are: with A -> B   *)
(* and B -> C, A player-owned, B and C neutral, the update in which A      *)
(* captures B also adds energy to C when A was inserted before B, and      *)
(* leaves C as it was when B was inserted before A.                        *)
OwnersReadInOrder ==
    [][lastOp'.op = "update"
       => \A i \in DOMAIN spheres, j \in DOMAIN spheres, k \in DOMAIN spheres :
            (/\ spheres[i].owner = "player"
             /\ spheres[j].owner = "neutral"
             /\ spheres[k].owner = "neutral"
             /\ spheres[i].connectedTo = spheres[j].id
             /\ spheres[j].connectedTo = spheres[k].id
             /\ spheres'[j].owner = "player")
            => /\ i < j => spheres'[k].energy > spheres[k].energy
               /\ j < i => spheres'[k] = spheres[k]]_vars

(* In one update a connection has captured its target and a later          *)
(* connection, out of that target, has added energy to a third sphere.     *)
CapturedThenProduced ==
    /\ lastOp.op = "update"
    /\ \E m \in DOMAIN transfers, n \in DOMAIN transfers :
          /\ m < n
          /\ TargetBefore(transfers[m]).owner = "neutral"
          /\ TargetAfter(transfers[m]).owner = "player"
          /\ transfers[n].source = transfers[m].target
          /\ TargetBefore(transfers[n]).owner = "neutral"
          /\ TargetAfter(transfers[n]).energy > TargetBefore(transfers[n]).energy


NeverCaptured(id, log) ==
    \A k \in DOMAIN log :
        log[k].target = id => TargetAfter(log[k]).owner = "neutral"

AttackerConsistency ==
    \A i \in DOMAIN spheres :
        \/ Empty(spheres[i].attackingOwner)
        \/ /\ spheres[i].attackingOwner \in {"player", "enemy"}
           /\ spheres[i].attackingOwner # spheres[i].owner

(* One ring sphere has been captured, which cleared its attackingOwner,    *)
(* and another is under attack.                                            *)
AttackerSetAndCleared ==
    /\ \E i \in DOMAIN spheres :
          /\ spheres[i].id # "center"
          /\ spheres[i].owner = "player"
          /\ spheres[i].attackingOwner = NULL
    /\ \E i \in DOMAIN spheres :
          /\ spheres[i].owner = "neutral"
          /\ spheres[i].attackingOwner = "player"


(* C30: showVictory runs only in a frame that starts without the latch and *)
(* whose update leaves checkVictory true, which is the first such frame    *)
(* since the last restart, and it sets the latch; the latch is cleared     *)
(* only by restart, so victory is shown at most once between two restarts, *)
(* although every frame goes on calling update; restart leaves the fresh   *)
(* puzzle layout: 7 spheres, one player-owned, no connection, no           *)
(* selection, tick 0.                                                      *)
VictoryLatch ==
    [][/\ victoriesShown' # victoriesShown
            => /\ lastOp'.op = "loop"
               /\ victoriesShown' = victoriesShown + 1
               /\ ~hasWon /\ hasWon'
               /\ ~checkVictory /\ checkVictory'
       /\ (lastOp'.op = "loop" /\ ~checkVictory /\ checkVictory')
            => victoriesShown' = victoriesShown + 1
       /\ lastOp'.op = "loop" => tick' = tick + 1
       /\ (hasWon /\ ~hasWon') => lastOp'.op = "restart"
       /\ lastOp'.op = "restart"
            => /\ ~hasWon'
               /\ Len(spheres') = Len(PuzzleOrder)
               /\ Cardinality({i \in DOMAIN spheres' : spheres'[i].owner = "player"}) = 1
               /\ \A i \in DOMAIN spheres' :
                     /\ spheres'[i].connectedTo = NULL
                     /\ spheres'[i].owner \in {"player", "neutral"}
                     /\ spheres'[i].energy = IF spheres'[i].owner = "player"
                                             THEN FullEnergy ELSE 0
               /\ selectedSphereId' = NULL
               /\ tick' = 0]_vars

(* Victory has been shown, the game restarted and won again, and a frame   *)
(* has run since without showing it once more.                             *)
VictoryShownAgain ==
    /\ victoriesShown = 2
    /\ hasWon
    /\ checkVictory
    /\ lastOp = Call("loop", UNDEFINED)

====
